---- MODULE Spec2Model ----
(***************************************************************************)
(* Model of the battle simulator in src/battle-sim/src/app/page.tsx: the   *)
(* Home component's state (battle, battleLog, isResolving, battleRef), its *)
(* two handlers (resolveTurn behind the move buttons, resetBattle behind   *)
(* the restart button), the callbacks it hands to window.setTimeout and    *)
(* the opponent effect.                                                    *)
(*                                                                         *)
(* Granularity: JavaScript runs one task at a time, so every handler and   *)
(* every timer callback is one action.  The re-render that a callback's    *)
(* state updates cause, and the effects of that render (the copy of battle *)
(* into battleRef.current and the opponent effect with its cleanup), are   *)
(* part of the same action.                                                *)
(*                                                                         *)
(* Numbers: multipliers of TYPE_CHART are kept in halves (2 stands for 1), *)
(* the variation 0.85 + Math.random() * 0.2 in thousandths (850..1049),    *)
(* and the damage is rounded from the exact rational product.              *)
(***************************************************************************)
EXTENDS Integers, Sequences, FiniteSets, TLC

\* ---------------------------------------------------------------- bounds
\* The runs explored: the first NumSamples entries of Samples.
NumSamples == 3
\* resetBattle is taken only while at most MaxStale timers are pending.
MaxStale == 2

\* ------------------------------------------------------------ static data
Sides == {"player", "opponent"}

NoVictor == "none"

TYPE_CHART ==
  [ Fire     |-> [Grass |-> 4, Ice |-> 4, Rock |-> 1, Water |-> 1, Fire |-> 1],
    Water    |-> [Fire |-> 4, Rock |-> 4, Grass |-> 1, Electric |-> 1],
    Grass    |-> [Water |-> 4, Rock |-> 4, Fire |-> 1, Grass |-> 1],
    Electric |-> [Water |-> 4, Grass |-> 1],
    Ice      |-> [Grass |-> 4, Water |-> 1, Fire |-> 1, Rock |-> 2],
    Psychic  |-> [Psychic |-> 1],
    Fairy    |-> [Psychic |-> 2, Fire |-> 1],
    Rock     |-> [Fire |-> 4, Electric |-> 2, Grass |-> 2, Water |-> 2] ]

createPokemon(base) ==
  [ name |-> base.name, hp |-> base.maxHp, maxHp |-> base.maxHp,
    types |-> base.types, moves |-> base.moves, energy |-> 100 ]

PLAYER_TEAM ==
  createPokemon(
    [ name |-> "Solaris", maxHp |-> 260, types |-> <<"Fire", "Grass">>,
      moves |-> << [name |-> "Flare Cascade", type |-> "Fire", power |-> 36, accuracy |-> 94],
                   [name |-> "Solar Bloom", type |-> "Grass", power |-> 28, accuracy |-> 100],
                   [name |-> "Aurora Pulse", type |-> "Psychic", power |-> 32, accuracy |-> 96],
                   [name |-> "Stellar Crest", type |-> "Fairy", power |-> 30, accuracy |-> 98] >> ])

OPPONENT_TEAM ==
  createPokemon(
    [ name |-> "Tidal Vanguard", maxHp |-> 270, types |-> <<"Water", "Electric">>,
      moves |-> << [name |-> "Nebula Torrent", type |-> "Water", power |-> 34, accuracy |-> 97],
                   [name |-> "Ion Crash", type |-> "Electric", power |-> 35, accuracy |-> 92],
                   [name |-> "Frostbound Wake", type |-> "Ice", power |-> 27, accuracy |-> 99],
                   [name |-> "Anchor Bloom", type |-> "Grass", power |-> 24, accuracy |-> 100] >> ])

INITIAL_STATE ==
  [ player |-> PLAYER_TEAM, opponent |-> OPPONENT_TEAM,
    turn |-> "player", victor |-> NoVictor ]

OpeningLine == "The arena hums to life as Solaris faces the Tidal Vanguard."

\* ---------------------------------------------------------- pure helpers
Max(a, b) == IF a >= b THEN a ELSE b
Min(a, b) == IF a <= b THEN a ELSE b

\* Mutant of clamp: no lower bound.
clampNoFloor(value, min, max) == Min(max, value)

clamp(value, min, max) == Max(min, Min(max, value))

\* TYPE_CHART[move.type]?.[typing] ?? 1, in halves.
typeMultiplier(attackType, typing) ==
  IF attackType \in DOMAIN TYPE_CHART /\ typing \in DOMAIN TYPE_CHART[attackType]
  THEN TYPE_CHART[attackType][typing]
  ELSE 2

RECURSIVE Pow2(_)
Pow2(n) == IF n = 0 THEN 1 ELSE 2 * Pow2(n - 1)

\* defender.types.reduce((product, typing) => product * typeMultiplier, 1):
\* the numerator of the product, over the denominator 2^Len(types).
RECURSIVE multiplierNum(_, _)

\* Mutant of multiplierNum: the multipliers are added, not multiplied.
multiplierNumSum(attackType, types) ==
  IF types = <<>> THEN 0
  ELSE typeMultiplier(attackType, Head(types)) * Pow2(Len(types) - 1)
         + 2 * multiplierNum(attackType, Tail(types))

multiplierNum(attackType, types) ==
  IF types = <<>> THEN 1
  ELSE typeMultiplier(attackType, Head(types)) * multiplierNum(attackType, Tail(types))

\* Math.round of the non-negative rational num / den.
Round(num, den) == (2 * num + den) \div (2 * den)

\* Mutant of calculateDamage: a move whose accuracy is below 100 misses.
calculateDamageMayMiss(move, defender, variation, crit) ==
  LET base   == move.power
      effNum == multiplierNum(move.type, defender.types)
      effDen == Pow2(Len(defender.types))
      damage == Round(base * variation * (IF crit THEN 3 ELSE 2) * effNum,
                      1000 * 2 * effDen)
  IN  [ damage |-> IF move.accuracy < 100 THEN 0 ELSE clamp(damage, 12, 90),
        effNum |-> effNum, effDen |-> effDen, crit |-> crit ]

\* variation is in thousandths; the result carries the effectiveness as the
\* fraction effNum / effDen.
calculateDamage(move, defender, variation, crit) ==
  LET base   == move.power
      effNum == multiplierNum(move.type, defender.types)
      effDen == Pow2(Len(defender.types))
      damage == Round(base * variation * (IF crit THEN 3 ELSE 2) * effNum,
                      1000 * 2 * effDen)
  IN  [ damage |-> clamp(damage, 12, 90), effNum |-> effNum, effDen |-> effDen,
        crit |-> crit ]

\* Mutant of effectMessage: an effectiveness of exactly 1 counts as weak.
effectMessageAtOne(effNum, effDen) ==
  IF 2 * effNum > 3 * effDen THEN <<"It's super effective!">>
  ELSE IF effNum <= effDen THEN <<"It's not very effective...">>
  ELSE <<>>

\* effectiveness > 1.5, effectiveness < 1, else null (the empty sequence).
effectMessage(effNum, effDen) ==
  IF 2 * effNum > 3 * effDen THEN <<"It's super effective!">>
  ELSE IF effNum < effDen THEN <<"It's not very effective...">>
  ELSE <<>>

\* The inputs of a run are sampled: the move buttons the player clicks, the
\* indices Math.floor(Math.random() * moves.length) yields for the opponent,
\* the variations 0.85 + Math.random() * 0.2 yields (in thousandths) and the
\* outcomes of Math.random() < 0.1.
Samples ==
  << [click |-> {2}, choice |-> {4}, variation |-> {850, 1049}, crit |-> BOOLEAN],
     [click |-> {1}, choice |-> {1}, variation |-> {1049}, crit |-> {TRUE}],
     [click |-> {3}, choice |-> {2}, variation |-> {850}, crit |-> {FALSE}],
     [click |-> {4}, choice |-> {3}, variation |-> {950}, crit |-> {TRUE}] >>

Other(side) == IF side = "player" THEN "opponent" ELSE "player"

\* ------------------------------------------------------------------ state
VARIABLES
  battle,       \* useState<BattleState>
  battleLog,    \* useState<string[]>
  isResolving,  \* useState(false)
  battleRef,    \* useRef: battleRef.current
  pending,      \* the 620 ms callbacks not yet run, oldest first: [side, move]
  trailing,     \* number of 300 ms callbacks not yet run
  oppTimer,     \* whether the opponent effect's 900 ms timeout is set
  sample,       \* the entry of Samples this run draws its inputs from
  event,        \* history: the last handler or callback that ran
  sinceReset    \* history: resetBattle ran and no submission was accepted since

vars == <<battle, battleLog, isResolving, battleRef, pending, trailing, oppTimer,
          sample, event, sinceReset>>

\* Mutants of OpponentEffect: the effect that never sets the timeout, and the
\* effect that does not look at the turn.
OpponentEffectNever(b, resolving) == FALSE

OpponentEffectAnyTurn(b, resolving) ==
  b.victor = NoVictor /\ ~resolving

\* The condition under which the opponent effect sets its timeout.
OpponentEffect(b, resolving) ==
  b.turn = "opponent" /\ b.victor = NoVictor /\ ~resolving

\* The render that follows a handler's state updates, with its effects:
\* battleRef.current = battle, and the opponent effect (its cleanup clears the
\* timeout of the previous render, its body sets a new one when the condition
\* holds).
Render ==
  /\ battleRef' = battle'
  /\ oppTimer' = OpponentEffect(battle', isResolving')

\* The history record of a step: which handler or callback ran, for which
\* side, whether it went past its early return, and whether the render it
\* caused cleared an opponent timeout that had not run.
Event(op, side, done) ==
  [ op |-> op, side |-> side, done |-> done,
    cleared |-> op # "opponentTimeout" /\ oppTimer /\ ~oppTimer' ]

Init ==
  /\ battle = INITIAL_STATE
  /\ battleLog = <<OpeningLine>>
  /\ isResolving = FALSE
  /\ battleRef = INITIAL_STATE
  /\ pending = <<>>
  /\ trailing = 0
  /\ oppTimer = FALSE
  /\ sample \in { Samples[k] : k \in 1..NumSamples }
  /\ event = [op |-> "init", side |-> "none", done |-> FALSE, cleared |-> FALSE]
  /\ sinceReset = FALSE

\* ------------------------------------------------------------- operations
\* Mutant of resetBattle: the busy flag is left as it is.
resetBattleKeepsBusy ==
  /\ Len(pending) + trailing <= MaxStale
  /\ battle' = INITIAL_STATE
  /\ battleLog' = <<OpeningLine>>
  /\ UNCHANGED <<isResolving, pending, trailing, sample>>
  /\ Render
  /\ event' = Event("reset", "none", TRUE)
  /\ sinceReset' = TRUE

resetBattle ==
  /\ Len(pending) + trailing <= MaxStale
  /\ battle' = [ player |-> [PLAYER_TEAM EXCEPT !.hp = PLAYER_TEAM.maxHp],
                 opponent |-> [OPPONENT_TEAM EXCEPT !.hp = OPPONENT_TEAM.maxHp],
                 turn |-> "player", victor |-> NoVictor ]
  /\ battleLog' = <<OpeningLine>>
  /\ isResolving' = FALSE
  /\ UNCHANGED <<pending, trailing, sample>>
  /\ Render
  /\ event' = Event("reset", "none", TRUE)
  /\ sinceReset' = TRUE

\* The early return of resolveTurn.
Rejected(side) ==
  \/ battleRef.victor # NoVictor
  \/ isResolving
  \/ battleRef[side].hp <= 0

\* resolveTurn past its early return: the busy flag, the turn, the 620 ms
\* timeout.
Accept(op, side, move) ==
  /\ isResolving' = TRUE
  /\ battle' = [battle EXCEPT !.turn = side]
  /\ pending' = Append(pending, [side |-> side, move |-> move])
  /\ UNCHANGED <<battleLog, trailing, sample>>
  /\ Render
  /\ event' = Event(op, side, TRUE)
  /\ sinceReset' = FALSE

\* A call that changes nothing: a click on a disabled button, or resolveTurn
\* taking its early return.
Ignore(op, side) ==
  /\ UNCHANGED <<battle, battleLog, isResolving, battleRef, pending, trailing,
                 sample, sinceReset>>
  /\ oppTimer' = (oppTimer /\ op # "opponentTimeout")
  /\ event' = Event(op, side, FALSE)

\* resolveTurn(side, move), called by `op` (a click or the opponent timeout).
resolveTurn(op, side, move) ==
  IF Rejected(side) THEN Ignore(op, side) ELSE Accept(op, side, move)

\* Mutant of playerDisabled: the turn is not looked at.
playerDisabledAnyTurn ==
  battle.victor # NoVictor \/ isResolving

playerDisabled ==
  battle.turn # "player" \/ battle.victor # NoVictor \/ isResolving

\* Mutant of ClickMove: the button is never disabled and the handler has no
\* early return.
ClickMoveUnguarded(i) ==
  Accept("click", "player", battle.player.moves[i])

\* A click on the i-th move button: a disabled button runs no handler.
ClickMove(i) ==
  IF playerDisabled
  THEN Ignore("click", "player")
  ELSE resolveTurn("click", "player", battle.player.moves[i])

\* The opponent effect's timeout.  It is set after every 620 ms timeout that
\* is still pending (no submission is accepted while it is set), so it runs
\* after them.
OpponentTimeout(i) ==
  /\ oppTimer
  /\ pending = <<>>
  /\ resolveTurn("opponentTimeout", "opponent", battleRef.opponent.moves[i])

\* Mutant of Dropped: the callback applies its resolution unconditionally.
DroppedNever(state, side) == FALSE

\* The re-validation of the 620 ms callback: the resolution is dropped.
Dropped(state, side) ==
  state[side].hp <= 0 \/ state.victor # NoVictor

\* Mutant of Updated: the victor is the side that was struck.
UpdatedWrongVictor(state, side, nextHp) ==
  [state EXCEPT ![Other(side)].hp = nextHp,
                !.turn = Other(side),
                !.victor = IF nextHp <= 0 THEN Other(side) ELSE @]

\* Mutant of Updated: the turn is left with the attacker.
UpdatedKeepsTurn(state, side, nextHp) ==
  [state EXCEPT ![Other(side)].hp = nextHp,
                !.victor = IF nextHp <= 0 THEN side ELSE @]

\* Mutant of Updated: the turn goes to the defender only if it survives.
UpdatedTurnOnSurvival(state, side, nextHp) ==
  [state EXCEPT ![Other(side)].hp = nextHp,
                !.turn = IF nextHp <= 0 THEN side ELSE Other(side),
                !.victor = IF nextHp <= 0 THEN side ELSE @]

\* Mutant of Updated: the move costs the attacker energy.
UpdatedSpendsEnergy(state, side, nextHp) ==
  [state EXCEPT ![Other(side)].hp = nextHp,
                ![side].energy = @ - 10,
                !.turn = Other(side),
                !.victor = IF nextHp <= 0 THEN side ELSE @]

\* The BattleState the 620 ms callback builds.
Updated(state, side, nextHp) ==
  [state EXCEPT ![Other(side)].hp = nextHp,
                !.turn = Other(side),
                !.victor = IF nextHp <= 0 THEN side ELSE @]

\* Mutant of Messages: the critical-hit line comes after the effectiveness
\* line.
MessagesCritLate(attacker, defender, move, r, nextHp) ==
  <<attacker.name \o " used " \o move.name \o "!">>
  \o effectMessage(r.effNum, r.effDen)
  \o (IF r.crit THEN <<"A critical hit!">> ELSE <<>>)
  \o (IF nextHp <= 0 THEN <<defender.name \o " fainted.">> ELSE <<>>)

\* The messages of a resolved turn, nulls filtered out.
Messages(attacker, defender, move, r, nextHp) ==
  <<attacker.name \o " used " \o move.name \o "!">>
  \o (IF r.crit THEN <<"A critical hit!">> ELSE <<>>)
  \o effectMessage(r.effNum, r.effDen)
  \o (IF nextHp <= 0 THEN <<defender.name \o " fainted.">> ELSE <<>>)

\* Mutant of PushLog: the last 8 entries are kept, slice(-8).
PushLogKeepsOldest(messages, prev) ==
  LET joined == messages \o prev
  IN  SubSeq(joined, Max(1, Len(joined) - 7), Len(joined))

\* [...messages, ...prev].slice(0, 8)
PushLog(messages, prev) ==
  LET joined == messages \o prev
  IN  SubSeq(joined, 1, Min(8, Len(joined)))

\* History of an applied resolution: the move, the defender's health before
\* it, the variation drawn, what calculateDamage returned and the number of
\* messages it logged.
Applied(move, defender, variation, r, messages) ==
  [ move |-> move, health |-> defender.hp, variation |-> variation, result |-> r,
    added |-> Len(messages) ]

\* The 620 ms callback of the oldest pending resolution, with the two
\* Math.random() draws of calculateDamage.
ApplyTimeout(variation, crit) ==
  /\ pending # <<>>
  /\ LET side         == Head(pending).side
         move         == Head(pending).move
         defenderSide == Other(side)
         state        == battleRef
         attacker     == state[side]
         defender     == state[defenderSide]
     IN  /\ pending' = Tail(pending)
         /\ IF Dropped(state, side)
            THEN /\ isResolving' = FALSE
                 /\ UNCHANGED <<battle, battleLog, trailing>>
                 /\ Render
                 /\ event' = Event("apply", side, FALSE)
            ELSE LET r        == calculateDamage(move, defender, variation, crit)
                     nextHp   == clamp(defender.hp - r.damage, 0, defender.maxHp)
                     messages == Messages(attacker, defender, move, r, nextHp)
                 IN  /\ battle' = Updated(state, side, nextHp)
                     /\ battleLog' = PushLog(messages, battleLog)
                     /\ trailing' = trailing + 1
                     /\ UNCHANGED isResolving
                     /\ Render
                     /\ event' = Event("apply", side, TRUE) @@
                                   Applied(move, defender, variation, r, messages)
         /\ UNCHANGED <<sample, sinceReset>>

\* Mutant of TrailingTimeout: the busy flag is left set.
TrailingTimeoutKeepsBusy ==
  /\ trailing > 0
  /\ trailing' = trailing - 1
  /\ UNCHANGED <<battle, battleLog, isResolving, pending, sample, sinceReset>>
  /\ Render
  /\ event' = Event("release", "none", TRUE)

\* The 300 ms callback: setIsResolving(false).
TrailingTimeout ==
  /\ trailing > 0
  /\ trailing' = trailing - 1
  /\ isResolving' = FALSE
  /\ UNCHANGED <<battle, battleLog, pending, sample, sinceReset>>
  /\ Render
  /\ event' = Event("release", "none", TRUE)

Click == \E i \in sample.click : ClickMove(i)
Reset == resetBattle
Opponent == \E i \in sample.choice : OpponentTimeout(i)
Apply == \E v \in sample.variation, c \in sample.crit : ApplyTimeout(v, c)
Release == TrailingTimeout

Next ==
  \/ Click
  \/ Reset
  \/ Opponent
  \/ Apply
  \/ Release

Spec == Init /\ [][Next]_vars

\* The runs in which resetBattle is never invoked.  Timeouts that are set
\* run: the timer callbacks are weakly fair.  Clicks are up to the user.
NextNoReset ==
  \/ Click
  \/ Opponent
  \/ Apply
  \/ Release

NoResetSpec ==
  /\ Init
  /\ [][NextNoReset]_vars
  /\ WF_vars(Opponent)
  /\ WF_vars(Apply)
  /\ WF_vars(Release)

\* The runs without resetBattle in which, besides, the player clicks a move
\* button whenever the buttons are enabled.
Submit == ~playerDisabled /\ Click

PlaySpec ==
  /\ Init
  /\ [][NextNoReset]_vars
  /\ WF_vars(Opponent)
  /\ WF_vars(Apply)
  /\ WF_vars(Release)
  /\ WF_vars(Submit)

\* Every run, resets included, in which the timeouts that are set run.
\* Clicks and resets are up to the user.  The runs are those of one sample,
\* Flare Cascade against Nebula Torrent with a critical hit at the top of
\* the variation.
ShortSample == Samples[2]

FairInit ==
  /\ Init
  /\ sample = ShortSample

FairSpec ==
  /\ FairInit
  /\ [][Next]_vars
  /\ WF_vars(Opponent)
  /\ WF_vars(Apply)
  /\ WF_vars(Release)

\* The first round of a battle under every draw of calculateDamage: each run
\* fixes one move button, one opponent choice, one value of the variation
\* 0.85 + Math.random() * 0.2 (in thousandths) and one outcome of the critical
\* hit test, and plays the player's first move and the opponent's answer.
Variations == 850..1049

Draws ==
  { [click |-> {i}, choice |-> {i}, variation |-> {v}, crit |-> {c}] :
      i \in 1..Len(PLAYER_TEAM.moves), v \in Variations, c \in BOOLEAN }

DrawInit ==
  /\ battle = INITIAL_STATE
  /\ battleLog = <<OpeningLine>>
  /\ isResolving = FALSE
  /\ battleRef = INITIAL_STATE
  /\ pending = <<>>
  /\ trailing = 0
  /\ oppTimer = FALSE
  /\ sample \in Draws
  /\ event = [op |-> "init", side |-> "none", done |-> FALSE, cleared |-> FALSE]
  /\ sinceReset = FALSE

FirstRound == battle.player.hp = PLAYER_TEAM.maxHp

DrawNext ==
  \/ FirstRound /\ Click
  \/ FirstRound /\ Opponent
  \/ FirstRound /\ Apply
  \/ FirstRound /\ Release

DrawSpec == DrawInit /\ [][DrawNext]_vars

\* ----------------------------------------------------------------- claims
Concluded == battle.victor # NoVictor

ControlUnchanged ==
  UNCHANGED <<battle, battleLog, isResolving, battleRef, pending, trailing, oppTimer>>

HealthTurnVictorUnchanged ==
  /\ battle'.player.hp = battle.player.hp
  /\ battle'.opponent.hp = battle.opponent.hp
  /\ battle'.turn = battle.turn
  /\ battle'.victor = battle.victor

\* C1: after resetBattle, and until a new submission is accepted, the battle
\* and the log keep the reset initial values: the callbacks of a resolution
\* that was pending at the reset change nothing.
C1_StaleResolutionDiscarded ==
  sinceReset => (battle = INITIAL_STATE /\ battleLog = <<OpeningLine>>)

\* C2: a submission is accepted (a new 620 ms timeout is set) only while no
\* initial delay and no trailing delay of an earlier submission is pending.
C2_AtMostOneInFlight ==
  [][Len(pending') > Len(pending) => (pending = <<>> /\ trailing = 0)]_vars

\* C3: a move submission made while a victor is set, by the player's click or
\* by the opponent's timeout, changes neither the battle nor the log and
\* starts no resolution.
C3_ConcludedRejects ==
  [][(Concluded /\ event'.op \in {"click", "opponentTimeout"}) => ControlUnchanged]_vars

C3_Witness ==
  Concluded /\ event.op = "click" /\ ~isResolving /\ battle.turn = "player"

\* C4: once a victor is set, every step other than resetBattle leaves the
\* victor, the turn and both combatants' health as they are.
C4_ConcludedTerminal ==
  [][(Concluded /\ event'.op # "reset") => HealthTurnVictorUnchanged]_vars

C4_Witness ==
  Concluded /\ event.op = "apply" /\ ~event.done

\* C5: a victor is set exactly when some combatant's health is 0, the victor
\* is the side opposing that combatant, and not both are at 0.
C5_VictorIffZero ==
  /\ Concluded <=> (battle.player.hp = 0 \/ battle.opponent.hp = 0)
  /\ battle.player.hp = 0 => battle.victor = "opponent"
  /\ battle.opponent.hp = 0 => battle.victor = "player"
  /\ ~(battle.player.hp = 0 /\ battle.opponent.hp = 0)

C5_Witness ==
  battle.victor = "opponent" /\ battle.player.hp = 0 /\ battle.opponent.hp > 0

\* C6: each combatant's health is an integer between 0 and its maxHealth, and
\* right after a resolution that brought the defender to 0 the victor is the
\* attacking side.
C6_HealthInRange ==
  /\ \A s \in Sides : battle[s].hp \in 0..battle[s].maxHp
  /\ (event.op = "apply" /\ event.done /\ battle[Other(event.side)].hp = 0)
        => battle.victor = event.side

C6_Witness ==
  event.op = "apply" /\ event.done /\ battle[Other(event.side)].hp = 0

\* C7: a move submission for a side whose turn it is not changes nothing and
\* starts no resolution.
C7_WrongTurnNoOp ==
  [][/\ (event'.op = "click" /\ battle.turn # "player") => ControlUnchanged
     /\ (event'.op = "opponentTimeout" /\ battle.turn # "opponent") => ControlUnchanged]_vars

C7_Witness ==
  /\ event.op = "click" /\ ~event.done
  /\ battle.turn = "opponent" /\ ~Concluded /\ ~isResolving

\* C8: right after resetBattle the battle is the initial one, the log holds
\* the opening line alone and the busy flag is clear.
C8_ResetFresh ==
  event.op = "reset" =>
    /\ battle = INITIAL_STATE
    /\ \A s \in Sides : battle[s].hp = battle[s].maxHp
    /\ battle.turn = "player" /\ battle.victor = NoVictor
    /\ battleLog = <<OpeningLine>>
    /\ ~isResolving

C8_Witness ==
  event.op = "reset" /\ pending # <<>> /\ trailing > 0

\* C9: with no reset, whenever a resolution hands the turn to the opponent and
\* no victor is set, and whenever it is the opponent's turn with no victor
\* and no resolution in flight, the opponent eventually submits a move; every
\* move the opponent submits is one of its own moves, and the opponent's
\* timeout never runs while a victor is set.
OpponentReady ==
  battle.turn = "opponent" /\ ~Concluded /\ ~isResolving

TurnHandedToOpponent ==
  event.op = "apply" /\ event.done /\ battle.turn = "opponent" /\ ~Concluded

OpponentSubmitted ==
  event.op = "opponentTimeout" /\ event.done

C9_OpponentMoves ==
  /\ TurnHandedToOpponent ~> OpponentSubmitted
  /\ OpponentReady ~> OpponentSubmitted
  /\ [](\A k \in 1..Len(pending) :
          pending[k].side = "opponent" =>
            \E i \in 1..Len(battle.opponent.moves) :
               pending[k].move = battle.opponent.moves[i])
  /\ [][event'.op = "opponentTimeout" => ~Concluded]_vars

C9_Witness ==
  OpponentSubmitted /\ pending # <<>> /\ Head(pending).side = "opponent"

\* C10: the opponent's timeout runs only while no victor is set and the turn
\* is the opponent's; a timeout that was set before the state changed is
\* cleared and submits nothing.
C10_OpponentSuppressed ==
  [][event'.op = "opponentTimeout" =>
       (battle.turn = "opponent" /\ ~Concluded /\ oppTimer)]_vars

C10_Witness ==
  event.cleared /\ event.op \in {"reset", "apply"} /\ ~oppTimer

\* A step in which a 620 ms callback applied its resolution, and the state
\* right after such a step.
Applies == event'.op = "apply" /\ event'.done
JustApplied == event.op = "apply" /\ event.done

Attacker(e) == e.side
Defender(e) == Other(e.side)

\* C11: the log never holds more than 8 entries; a resolved turn puts its
\* messages at the head of the log, the announcement first, all of them kept,
\* followed by the former entries in their order, the oldest ones cut off
\* past 8.
C11_LogBounded ==
  /\ [](Len(battleLog) <= 8)
  /\ [][Applies =>
          LET n == event'.added
          IN  /\ n \in 1..4
              /\ Len(battleLog') = Min(8, Len(battleLog) + n)
              /\ battleLog'[1] = battle[Attacker(event')].name \o " used "
                                   \o event'.move.name \o "!"
              /\ SubSeq(battleLog', n + 1, Len(battleLog'))
                   = SubSeq(battleLog, 1, Len(battleLog') - n)]_vars

C11_Witness ==
  /\ JustApplied /\ Len(battleLog) = 8
  /\ \A k \in 1..8 : battleLog[k] # OpeningLine

\* C12: whatever the move, the defender and the draws, the damage returned by
\* calculateDamage is an integer from 12 to 90.
C12_DamageClamped ==
  /\ \A k \in 1..Len(pending) :
       LET p == pending[k]
       IN  \A v \in sample.variation, c \in sample.crit :
             calculateDamage(p.move, battle[Other(p.side)], v, c).damage \in 12..90
  /\ JustApplied => event.result.damage \in 12..90

\* The floor is what gives the result: Anchor Bloom against Fire/Grass is
\* rounded to 5 or 6 and comes out as 12.
C12_Witness ==
  /\ JustApplied
  /\ event.move.name = "Anchor Bloom"
  /\ event.result.damage = 12
  /\ Round(event.move.power * event.variation
             * (IF event.result.crit THEN 3 ELSE 2) * event.result.effNum,
           1000 * 2 * event.result.effDen) < 12

\* The table has an entry for the pair.
Listed(attackType, typing) ==
  attackType \in DOMAIN TYPE_CHART /\ typing \in DOMAIN TYPE_CHART[attackType]

\* C13: the effectiveness of a move is the product, over the defender's
\* types, of the table's multiplier for the move's type against that type,
\* a pair the table does not list counting as 1; it is neither the sum nor
\* the largest of the multipliers.
C13_EffectivenessIsProduct ==
  JustApplied =>
    LET types == battle[Defender(event)].types
        m(k)  == IF Listed(event.move.type, types[k])
                 THEN TYPE_CHART[event.move.type][types[k]]
                 ELSE 2
    IN  /\ Len(types) = 2
        /\ 4 * event.result.effNum = m(1) * m(2) * event.result.effDen

\* Ion Crash against Fire/Grass: no entry for Fire, 0.5 for Grass; the
\* product 0.5 differs from the sum 1.5 and from the maximum 1.
C13_Witness ==
  /\ JustApplied
  /\ event.move.type = "Electric"
  /\ battle[Defender(event)].types = <<"Fire", "Grass">>
  /\ ~Listed("Electric", "Fire")
  /\ TYPE_CHART["Electric"]["Grass"] = 1
  /\ 2 * event.result.effNum = event.result.effDen

\* The messages the last applied resolution put into the log, and how many
\* of them are a given line.
NewMessages == SubSeq(battleLog, 1, event.added)

Count(line) == Cardinality({ k \in 1..Len(NewMessages) : NewMessages[k] = line })

\* C14: a resolved turn logs the line "super effective" once exactly when the
\* effectiveness is above 1.5, the line "not very effective" once exactly
\* when it is below 1, and no effectiveness line from 1 to 1.5 inclusive;
\* never both.
C14_EffectivenessLine ==
  /\ \A effDen \in {1, 2, 4} : \A effNum \in 0..(4 * effDen) :
       effectMessage(effNum, effDen) =
         IF 2 * effNum > 3 * effDen THEN <<"It's super effective!">>
         ELSE IF effNum < effDen THEN <<"It's not very effective...">>
         ELSE <<>>
  /\ JustApplied =>
       LET strong == 2 * event.result.effNum > 3 * event.result.effDen
           weak   == event.result.effNum < event.result.effDen
       IN  /\ Count("It's super effective!") = IF strong THEN 1 ELSE 0
           /\ Count("It's not very effective...") = IF weak THEN 1 ELSE 0
           /\ Count("It's super effective!") + Count("It's not very effective...") <= 1

\* Solar Bloom against Water/Electric has effectiveness 2: the turn is logged
\* with the one line "super effective".
C14_Witness ==
  /\ JustApplied
  /\ event.move.name = "Solar Bloom"
  /\ 2 * event.result.effNum > 3 * event.result.effDen
  /\ Count("It's super effective!") = 1
  /\ Count("It's not very effective...") = 0

\* C15: a resolution with damage d against a defender of health h leaves the
\* defender with max(0, h - d), within 0..maxHp; when that is positive the
\* turn is the defender's side and there is no victor.  A defender at 40 hit
\* for 12 twice goes to 28, then 16.
C15_HealthAfterHit ==
  /\ [](/\ clamp(40 - 12, 0, PLAYER_TEAM.maxHp) = 28
        /\ clamp(28 - 12, 0, PLAYER_TEAM.maxHp) = 16)
  /\ [][Applies =>
          LET defender == Defender(event')
              h == event'.health
              d == event'.result.damage
              n == battle'[defender].hp
          IN  /\ h = battle[defender].hp
              /\ n = Max(0, h - d)
              /\ n \in 0..battle[defender].maxHp
              /\ n > 0 => /\ battle'.turn = defender
                          /\ battle'.victor = NoVictor]_vars

\* The player hit for 12 twice: 260, 248, 236.
C15_Witness ==
  /\ JustApplied
  /\ event.side = "opponent"
  /\ event.result.damage = 12
  /\ event.health = 248
  /\ battle.player.hp = 236
  /\ battle.turn = "player"
  /\ battle.victor = NoVictor

\* The first 8 entries of a sequence.
FirstEight(s) == SubSeq(s, 1, Min(8, Len(s)))

\* C16: a resolved turn puts 1 to 4 messages at the head of the log, in the
\* order: the announcement with the attacker's and the move's names; the
\* critical-hit line exactly when the hit was critical; at most one
\* effectiveness line; the faint line with the defender's name exactly when
\* the defender's new health is 0.  A click, a timeout of the opponent or a
\* dropped resolution adds nothing to the log.
C16_TurnMessages ==
  [][/\ Applies =>
          LET attacker == battle[Attacker(event')]
              defender == battle[Defender(event')]
              announce == <<attacker.name \o " used " \o event'.move.name \o "!">>
              critical == IF event'.result.crit THEN <<"A critical hit!">> ELSE <<>>
              fainted  == IF battle'[Defender(event')].hp = 0
                          THEN <<defender.name \o " fainted.">> ELSE <<>>
          IN  \E effect \in { <<>>, <<"It's super effective!">>,
                              <<"It's not very effective...">> } :
                LET messages == announce \o critical \o effect \o fainted
                IN  /\ Len(messages) \in 1..4
                    /\ Len(messages) = event'.added
                    /\ battleLog' = FirstEight(messages \o battleLog)
     /\ (event'.op \in {"click", "opponentTimeout"}
         \/ (event'.op = "apply" /\ ~event'.done)) => battleLog' = battleLog]_vars

\* A critical, super effective hit that brings the opponent to 0: four
\* messages.
C16_Witness ==
  /\ JustApplied
  /\ event.added = 4
  /\ battle.opponent.hp = 0
  /\ SubSeq(battleLog, 1, 4) = << "Solaris used Solar Bloom!", "A critical hit!",
                                  "It's super effective!", "Tidal Vanguard fainted." >>

\* C17, as stated: the turn goes to the defender's side only when the
\* defender survives; when the defender's new health is 0 the victor is the
\* attacker's side and the turn stays with the attacker.
C17_TurnKeptOnKill ==
  [][Applies =>
       LET S == Attacker(event')
           n == battle'[Defender(event')].hp
       IN  /\ battle'.turn = Defender(event') => n > 0
           /\ n = 0 => /\ battle'.victor = S
                       /\ battle'.turn = S]_vars

\* C17, amended: a resolution sets the turn to the defender's side whether
\* the defender survives or not; when the defender's new health is 0 the
\* victor is the attacker's side, and when it is positive there is no victor.
C17_TurnSetToDefender ==
  [][Applies =>
       LET S == Attacker(event')
           n == battle'[Defender(event')].hp
       IN  /\ battle'.turn = Defender(event')
           /\ n = 0 => battle'.victor = S
           /\ n > 0 => battle'.victor = NoVictor]_vars

\* The player's hit brings the opponent to 0: the player is the victor and
\* the turn reads "opponent".
C17_Witness ==
  /\ JustApplied
  /\ event.side = "player"
  /\ battle.opponent.hp = 0
  /\ battle.victor = "player"
  /\ battle.turn = "opponent"

\* The state right after the player's first move was resolved.
PlayerStruckFirst == JustApplied /\ event.side = "player"

\* C18, as stated: in a fresh battle the player's first move strikes a
\* defender that has 260 health; when the damage is 90 the defender is left
\* with 170, the turn is the defender's and there is no victor.
C18_FirstStrikeAt260 ==
  PlayerStruckFirst =>
    /\ event.health = 260
    /\ event.result.damage = 90 =>
         /\ battle.opponent.hp = 170
         /\ battle.turn = "opponent"
         /\ battle.victor = NoVictor

\* C18, amended: in a fresh battle the player's first move strikes the
\* opponent, which has 270 health; the damage d is at most 88, the opponent
\* is left with 270 - d, which is 182 or more, the turn is the opponent's
\* and there is no victor.
C18_FirstStrikeAt270 ==
  PlayerStruckFirst =>
    /\ event.health = 270
    /\ event.result.damage \in 12..88
    /\ battle.opponent.hp = 270 - event.result.damage
    /\ battle.opponent.hp >= 182
    /\ battle.player.hp = 260
    /\ battle.turn = "opponent"
    /\ battle.victor = NoVictor

\* The strongest first strike: a critical Solar Bloom at the top of the
\* variation, 88 damage, 270 -> 182.
C18_Witness ==
  /\ PlayerStruckFirst
  /\ event.move.name = "Solar Bloom"
  /\ event.result.crit
  /\ event.result.damage = 88
  /\ battle.opponent.hp = 182
  /\ battle.turn = "opponent"

\* Everything of a combatant but its health.
Fixed(pokemon) ==
  [ name |-> pokemon.name, maxHp |-> pokemon.maxHp, types |-> pokemon.types,
    moves |-> pokemon.moves, energy |-> pokemon.energy ]

\* C19: a resolution changes the defender's health, the turn and the victor
\* and nothing else of the battle: the attacker is as it was.  No step,
\* resetBattle included, changes the name, maxHp, types, moves or energy of
\* either combatant.
C19_FrameOfResolution ==
  [][/\ \A side \in Sides : Fixed(battle'[side]) = Fixed(battle[side])
     /\ DOMAIN battle' = DOMAIN battle
     /\ Applies =>
          /\ battle'[Attacker(event')] = battle[Attacker(event')]
          /\ battle'[Attacker(event')].hp = battle[Attacker(event')].hp
          /\ battle' = [battle EXCEPT ![Defender(event')].hp = battle'[Defender(event')].hp,
                                      !.turn = battle'.turn,
                                      !.victor = battle'.victor]]_vars

\* The player, already hit once, strikes: its own health is still 248 and
\* both combatants are otherwise as they were created.
C19_Witness ==
  /\ JustApplied
  /\ event.side = "player"
  /\ battle.player.hp = 248
  /\ battle.opponent.hp < event.health
  /\ Fixed(battle.player) = Fixed(PLAYER_TEAM)
  /\ Fixed(battle.opponent) = Fixed(OPPONENT_TEAM)

\* The move with another accuracy.
WithAccuracy(move, accuracy) == [move EXCEPT !.accuracy = accuracy]

\* C20: no move misses and the accuracy of a move has no influence: every
\* applied resolution lowers the defender's health, by 12 or more or down to
\* 0, and with the same draws the damage, the new battle state and the new
\* log are the same whatever the accuracy of the move.
C20_AccuracyIgnored ==
  [][Applies =>
       LET attacker == battle[Attacker(event')]
           defender == battle[Defender(event')]
           n        == battle'[Defender(event')].hp
       IN  /\ n < defender.hp
           /\ defender.hp - n >= 12 \/ n = 0
           /\ \A accuracy \in {0, 50, 100} :
                LET move   == WithAccuracy(event'.move, accuracy)
                    r      == calculateDamage(move, defender, event'.variation,
                                              event'.result.crit)
                    nextHp == clamp(defender.hp - r.damage, 0, defender.maxHp)
                IN  /\ r = event'.result
                    /\ battle' = Updated(battle, Attacker(event'), nextHp)
                    /\ battleLog' = PushLog(Messages(attacker, defender, move, r, nextHp),
                                            battleLog)]_vars

\* Ion Crash, the move with the lowest accuracy (92), has been applied and
\* took its damage from the player's health.
C20_Witness ==
  /\ JustApplied
  /\ event.move.name = "Ion Crash"
  /\ event.move.accuracy = 92
  /\ event.result.damage >= 12
  /\ battle.player.hp < event.health

\* C21: the busy flag is always released in the end: whenever a submission
\* has been accepted and the engine is busy, it becomes non-busy again, be
\* the resolution applied or dropped by the re-validation of the callback.
C21_BusyReleased ==
  isResolving ~> ~isResolving

\* A resolution was dropped by the callback, which released the busy flag
\* itself.
C21_Witness ==
  /\ event.op = "apply" /\ ~event.done
  /\ ~isResolving
  /\ pending = <<>> /\ trailing = 0

\* The largest number of hits a combatant can still take, each hit taking 12
\* or the rest of its health.
HitsLeft(pokemon) == (pokemon.hp + 11) \div 12

\* C22: no step but a reset raises a combatant's health, and every applied
\* resolution lowers the defender's health, by which the number of hits the
\* defender can still take goes down; it starts at 22 for the side with 260
\* health and 23 for the side with 270.  With no reset and a player who
\* submits whenever the buttons are enabled, the battle reaches Concluded.
C22_BattleEnds ==
  /\ [][event'.op # "reset" =>
          \A side \in Sides : battle'[side].hp <= battle[side].hp]_vars
  /\ [][Applies =>
          /\ battle'[Defender(event')].hp < battle[Defender(event')].hp
          /\ HitsLeft(battle'[Defender(event')]) < HitsLeft(battle[Defender(event')])]_vars
  /\ [](/\ HitsLeft(battle.player) \in 0..22
        /\ HitsLeft(battle.opponent) \in 0..23)
  /\ <>Concluded
  /\ ~Concluded ~> Concluded

\* A battle fought to its end: both sides were hit and one of them is at 0.
C22_Witness ==
  /\ JustApplied
  /\ Concluded
  /\ battle.player.hp < battle.player.maxHp
  /\ battle.opponent.hp < battle.opponent.maxHp
  /\ HitsLeft(battle[Defender(event)]) = 0

\* The announcements a side can put into the log.
Announcements(side) ==
  { battle[side].name \o " used " \o battle[side].moves[i].name \o "!" :
      i \in 1..Len(battle[side].moves) }

\* C23: with no reset, the attackers of successive applied resolutions
\* alternate, the player first: the resolution applied after the opening
\* line is the player's, and every other one follows, at the head of the
\* log, the announcement of a move of the other side.
C23_AttackersAlternate ==
  [][Applies =>
       /\ battleLog # <<>>
       /\ IF battleLog[1] = OpeningLine
          THEN Attacker(event') = "player"
          ELSE battleLog[1] \in Announcements(Defender(event'))
       /\ battleLog'[1] \in Announcements(Attacker(event'))
       /\ battle.turn = Attacker(event')
       /\ battle'.turn = Defender(event')]_vars

\* The player strikes again after the opponent's answer: the player's new
\* announcement heads the log and the opponent's follows the turn's
\* messages.
C23_Witness ==
  /\ JustApplied
  /\ event.side = "player"
  /\ battle.player.hp < battle.player.maxHp
  /\ Len(battleLog) > event.added
  /\ battleLog[1] \in Announcements("player")
  /\ battleLog[event.added + 1] \in Announcements("opponent")

====
